---- MODULE Spec2Model ----
(***************************************************************************)
(* Model of the upload core of s5-client-js (src/src/upload.ts):           *)
(*   - splitSizeIntoChunkAlignedParts, the pure partitioner;               *)
(*   - uploadFile and the small / large upload paths it dispatches to;     *)
(* and of the URL helpers of src/src/utils/url.ts.                         *)
(***************************************************************************)
EXTENDS Integers, Sequences, FiniteSets, TLC

VARIABLES
    \* ---- partitioner call (splitSizeIntoChunkAlignedParts) ----
    totalSize,      \* argument totalSize
    partCount,      \* argument partCount
    chunkSize,      \* argument chunkSize
    splitResult,    \* NotCalled, or the outcome of the call
    \* ---- one uploadFile call ----
    file,           \* [size |-> file.size]
    clientOptions,  \* this.customOptions
    customOptions,  \* the customOptions argument of uploadFile
    opts,           \* the merged options of the call (NoOpts before the call)
    pc,             \* position of the call in the code
    path,           \* "none", "small" or "large": the branch uploadFile took
    requests,       \* requests handed to executeRequest, in order
    read,           \* `read` of the b3hash reader loop
    sessions,       \* tus Upload objects created and started, in order
    outcome,        \* what the caller of uploadFile has got back
    response,       \* what executeRequest delivered last (NoResponse before)
    events,         \* callbacks the tus engine and the transport have invoked
    progress,       \* bytesSent last reported by onProgress, per session
    uploadUrl,      \* upload.url of the tus Upload: "unset" or "set"
    tusError,       \* the error the tus engine passed to onError (NoError before)
    \* ---- one call of a URL helper (utils/url.ts) ----
    urlFn,          \* the function called ("none" when there is no call)
    urlArgs,        \* its arguments, in order
    urlResult,      \* NoResult, or the outcome of the call
    urlResult2      \* NoResult, or the outcome of the call on urlResult

splitVars == <<totalSize, partCount, chunkSize, splitResult>>
uploadVars == <<file, clientOptions, customOptions, opts, pc, path, requests,
                read, sessions, outcome, response, events, progress, uploadUrl,
                tusError>>
tusVars == <<events, progress, uploadUrl, tusError>>
urlVars == <<urlFn, urlArgs, urlResult, urlResult2>>
vars == <<totalSize, partCount, chunkSize, splitResult,
          file, clientOptions, customOptions, opts, pc, path, requests,
          read, sessions, outcome, response, events, progress, uploadUrl,
          tusError, urlFn, urlArgs, urlResult, urlResult2>>

-----------------------------------------------------------------------------
(* Bounds of the partitioner's inputs. *)
MaxTotalSize == 26
MaxPartCount == 4
MaxChunkSize == 10

Min(a, b) == IF a < b THEN a ELSE b

-----------------------------------------------------------------------------
(* splitSizeIntoChunkAlignedParts                                           *)

NotCalled == [status |-> "notCalled", parts |-> <<>>]

\* throwValidationError(name, value, "parameter", expected): raises; the
\* call returns nothing.
throwValidationError(name) ==
    [status |-> "validationError", param |-> name, parts |-> <<>>]

\* new Array(partCount).fill(0); index i of the code is index i+1 here.
ZeroArray(n) == [k \in 1..n |-> 0]

\* for (let i = 0; i < numFullChunks; i++) partSizes[i % partCount] += chunkSize;
RECURSIVE AssignChunksMutant(_, _, _, _, _)
AssignChunksMutant(partSizes, i, numFullChunks, pCount, cSize) ==
    IF i < numFullChunks
    THEN AssignChunksMutant([partSizes EXCEPT ![1] = @ + cSize],
                            i + 1, numFullChunks, pCount, cSize)
    ELSE partSizes

RECURSIVE AssignChunks(_, _, _, _, _)
AssignChunks(partSizes, i, numFullChunks, pCount, cSize) ==
    IF i < numFullChunks
    THEN AssignChunks([partSizes EXCEPT ![(i % pCount) + 1] = @ + cSize],
                      i + 1, numFullChunks, pCount, cSize)
    ELSE partSizes

\* const lastIndex = Math.min(numFullChunks, partCount - 1);
LeftoverIndexMutant(numFullChunks, pCount) == 0

LeftoverIndexLast(numFullChunks, pCount) == pCount - 1

LeftoverIndex(numFullChunks, pCount) == Min(numFullChunks, pCount - 1)

\* if (leftover > 0) { partSizes[lastIndex] += leftover; }
AddLeftoverMutant(partSizes, numFullChunks, pCount, leftover) ==
    IF leftover > 0
    THEN [k \in DOMAIN partSizes |->
            IF k \in {LeftoverIndex(numFullChunks, pCount) + 1, 1}
            THEN partSizes[k] + leftover ELSE partSizes[k]]
    ELSE partSizes

AddLeftover(partSizes, numFullChunks, pCount, leftover) ==
    IF leftover > 0
    THEN [partSizes EXCEPT ![LeftoverIndex(numFullChunks, pCount) + 1] = @ + leftover]
    ELSE partSizes

\* for (let i = 0; i < partCount; i++) { parts.push({start: lastBoundary,
\*   end: lastBoundary + partSizes[i]}); lastBoundary = parts[i].end; }
RECURSIVE ConvertSizesMutant(_, _, _, _, _)
ConvertSizesMutant(partSizes, i, pCount, lastBoundary, parts) ==
    IF i < pCount
    THEN ConvertSizesMutant(partSizes, i + 1, pCount, lastBoundary + partSizes[i + 1],
             Append(parts, [start |-> IF i = 0 THEN 0 ELSE lastBoundary + 1,
                            end |-> lastBoundary + partSizes[i + 1]]))
    ELSE parts

RECURSIVE ConvertSizes(_, _, _, _, _)
ConvertSizes(partSizes, i, pCount, lastBoundary, parts) ==
    IF i < pCount
    THEN ConvertSizes(partSizes, i + 1, pCount, lastBoundary + partSizes[i + 1],
             Append(parts, [start |-> lastBoundary,
                            end |-> lastBoundary + partSizes[i + 1]]))
    ELSE parts

\* const numFullChunks = Math.floor(totalSize / chunkSize);
NumFullChunksMutant(tSize, cSize) == (tSize + cSize - 1) \div cSize

NumFullChunks(tSize, cSize) == tSize \div cSize

splitSizeIntoChunkAlignedPartsMutant(tSize, pCount, cSize) ==
    IF pCount < 1 THEN throwValidationError("partCount")
    ELSE IF cSize < 1 THEN throwValidationError("chunkSize")
    ELSE IF tSize < cSize THEN throwValidationError("totalSize")
    ELSE
      LET numFullChunks == NumFullChunks(tSize, cSize)
          leftover == tSize % cSize
          filled == AssignChunks(ZeroArray(pCount), 0, numFullChunks, pCount, cSize)
          partSizes == AddLeftover(filled, numFullChunks, pCount, leftover)
      IN [status |-> "ok",
          parts |-> ConvertSizes(partSizes, 0, pCount, 0, <<>>)]

splitSizeIntoChunkAlignedParts(tSize, pCount, cSize) ==
    IF pCount < 1 THEN throwValidationError("partCount")
    ELSE IF cSize < 1 THEN throwValidationError("chunkSize")
    ELSE IF tSize <= cSize THEN throwValidationError("totalSize")
    ELSE
      LET numFullChunks == NumFullChunks(tSize, cSize)
          leftover == tSize % cSize
          filled == AssignChunks(ZeroArray(pCount), 0, numFullChunks, pCount, cSize)
          partSizes == AddLeftover(filled, numFullChunks, pCount, leftover)
      IN [status |-> "ok",
          parts |-> ConvertSizes(partSizes, 0, pCount, 0, <<>>)]

-----------------------------------------------------------------------------
(* Upload options: a JavaScript object is a function from the keys it has  *)
(* to their values.                                                        *)

\* export const TUS_CHUNK_SIZE = (1 << 22) * 10;
TUS_CHUNK_SIZE == (2 ^ 22) * 10
\* var unit = 1024 * 1024;
Unit == 1024 * 1024

DEFAULT_UPLOAD_OPTIONS ==
    [endpointUpload |-> "/s5/upload",
     endpointDirectoryUpload |-> "/s5/upload/directory",
     endpointLargeUpload |-> "/s5/upload/tus",
     chunkSizeMultiplier |-> 3,
     largeFileSize |-> TUS_CHUNK_SIZE,
     numParallelUploads |-> 2,
     staggerPercent |-> 50]

\* { ...a, ...b }
Spread(a, b) ==
    [k \in (DOMAIN a) \cup (DOMAIN b) |-> IF k \in DOMAIN b THEN b[k] ELSE a[k]]

\* const opts = { ...DEFAULT_UPLOAD_OPTIONS, ...this.customOptions, ...customOptions };
MergeOptions(client, custom) ==
    Spread(Spread(DEFAULT_UPLOAD_OPTIONS, client), custom)

\* if (file.size < opts.largeFileSize * opts.chunkSizeMultiplier)
IsSmallFileMutant(f, o) == f.size < o.largeFileSize

IsSmallFile(f, o) == f.size < o.largeFileSize * o.chunkSizeMultiplier

\* staggerPercent?: number | null. A percentage is in 0..100; null ("Pass
\* `null` to disable staggering") is written as the number below.
Null == -1

(* The inputs of one uploadFile call. *)
NoOptions == [k \in {} |-> 0]
OptionValues ==
    [largeFileSize |-> {TUS_CHUNK_SIZE},
     chunkSizeMultiplier |-> {1},
     numParallelUploads |-> {1, 3},
     staggerPercent |-> {Null}]
OptionObjects ==
    { o \in UNION { [K -> UNION { OptionValues[k] : k \in K }] :
                      K \in SUBSET (DOMAIN OptionValues) } :
        \A k \in DOMAIN o : o[k] \in OptionValues[k] }
FileSizes ==
    {0, 10 * Unit, TUS_CHUNK_SIZE - 1, TUS_CHUNK_SIZE, 100 * Unit,
     3 * TUS_CHUNK_SIZE - 1, 3 * TUS_CHUNK_SIZE}

NoOutcome == [kind |-> "pending", value |-> "none"]
NoResponse == [kind |-> "none"]
\* What a rejected executeRequest throws.
TransportErrors == {"networkError", "httpError"}

-----------------------------------------------------------------------------
(* Specification of the partitioner: the arguments are drawn in Init and    *)
(* SplitCall applies the function to them.                                  *)

NoError == [name |-> "none", hasResponse |-> FALSE, body |-> <<>>]

UploadIdle ==
    /\ file = [size |-> 0]
    /\ clientOptions = NoOptions
    /\ customOptions = NoOptions
    /\ opts = NoOptions
    /\ pc = "idle"
    /\ path = "none"
    /\ requests = <<>>
    /\ read = 0
    /\ sessions = <<>>
    /\ outcome = NoOutcome
    /\ response = NoResponse
    /\ events = <<>>
    /\ progress = <<>>
    /\ uploadUrl = "unset"
    /\ tusError = NoError

NoResult == [status |-> "notCalled"]

UrlIdle ==
    /\ urlFn = "none"
    /\ urlArgs = <<>>
    /\ urlResult = NoResult
    /\ urlResult2 = NoResult

SplitInit ==
    /\ totalSize \in -1..MaxTotalSize
    /\ partCount \in -1..MaxPartCount
    /\ chunkSize \in -1..MaxChunkSize
    /\ splitResult = NotCalled
    /\ UploadIdle
    /\ UrlIdle

SplitCall ==
    /\ splitResult = NotCalled
    /\ splitResult' = splitSizeIntoChunkAlignedParts(totalSize, partCount, chunkSize)
    /\ UNCHANGED <<totalSize, partCount, chunkSize>>
    /\ UNCHANGED uploadVars
    /\ UNCHANGED urlVars

SplitNext == SplitCall

SplitSpec == SplitInit /\ [][SplitNext]_vars

-----------------------------------------------------------------------------
(* One uploadFile call on a client, from the call to what the caller gets.  *)

\* `${responsedS5Cid}`: the template string of a value that may be undefined.
TemplateString(v) == IF v = "undefined" THEN "undefined" ELSE v

Init ==
    /\ totalSize = 0 /\ partCount = 0 /\ chunkSize = 0
    /\ splitResult = NotCalled
    /\ file \in [size : FileSizes]
    /\ clientOptions \in OptionObjects
    /\ customOptions \in OptionObjects
    /\ opts = NoOptions
    /\ pc = "idle"
    /\ path = "none"
    /\ requests = <<>>
    /\ read = 0
    /\ sessions = <<>>
    /\ outcome = NoOutcome
    /\ response = NoResponse
    /\ events = <<>>
    /\ progress = <<>>
    /\ uploadUrl = "unset"
    /\ tusError = NoError
    /\ UrlIdle

\* uploadFile, small branch: uploadSmallFile -> uploadSmallFileRequest, up to
\* the await of executeRequest({...opts, endpointPath: opts.endpointUpload,
\* method: "post", data: formData}).
UploadFileSmall ==
    /\ pc = "idle"
    /\ LET o == MergeOptions(clientOptions, customOptions)
           o2 == MergeOptions(clientOptions, o)
       IN /\ IsSmallFile(file, o)
          /\ opts' = o2
          /\ requests' = Append(requests,
                 [method |-> "post", endpointPath |-> o2.endpointUpload,
                  size |-> file.size])
    /\ path' = "small"
    /\ pc' = "smallRequest"
    /\ UNCHANGED <<file, clientOptions, customOptions, read, sessions, outcome, response>>
    /\ UNCHANGED tusVars
    /\ UNCHANGED splitVars
    /\ UNCHANGED urlVars

\* uploadFile, large branch: uploadLargeFile -> uploadLargeFileRequest, up to
\* the await of buildRequestUrl.
UploadFileLarge ==
    /\ pc = "idle"
    /\ LET o == MergeOptions(clientOptions, customOptions)
       IN /\ ~IsSmallFile(file, o)
          /\ opts' = MergeOptions(clientOptions, o)
    /\ path' = "large"
    /\ pc' = "buildRequestUrl"
    /\ UNCHANGED <<file, clientOptions, customOptions, requests, read, sessions, outcome, response>>
    /\ UNCHANGED tusVars
    /\ UNCHANGED splitVars
    /\ UNCHANGED urlVars

\* executeRequest answers the small upload: uploadSmallFile returns
\* `${response.data.cid}`.
SmallResponse ==
    /\ pc = "smallRequest"
    /\ \E cid \in {"cid", "undefined"} :
          /\ response' = [kind |-> "response", cid |-> cid]
          /\ outcome' = [kind |-> "returned", value |-> TemplateString(cid)]
    /\ pc' = "done"
    /\ UNCHANGED <<file, clientOptions, customOptions, opts, path, requests, read, sessions>>
    /\ UNCHANGED tusVars
    /\ UNCHANGED splitVars
    /\ UNCHANGED urlVars

\* executeRequest rejects: the await in uploadSmallFileRequest rethrows.
SmallErrorMutant ==
    /\ pc = "smallRequest"
    /\ \E e \in TransportErrors :
          /\ response' = [kind |-> "error", error |-> e]
          /\ outcome' = [kind |-> "thrown", value |-> "uploadError"]
    /\ pc' = "failed"
    /\ UNCHANGED <<file, clientOptions, customOptions, opts, path, requests, read, sessions>>
    /\ UNCHANGED tusVars
    /\ UNCHANGED splitVars
    /\ UNCHANGED urlVars

SmallError ==
    /\ pc = "smallRequest"
    /\ \E e \in TransportErrors :
          /\ response' = [kind |-> "error", error |-> e]
          /\ outcome' = [kind |-> "thrown", value |-> e]
    /\ pc' = "failed"
    /\ UNCHANGED <<file, clientOptions, customOptions, opts, path, requests, read, sessions>>
    /\ UNCHANGED tusVars
    /\ UNCHANGED splitVars
    /\ UNCHANGED urlVars

\* buildRequestUrl resolves; the executor of the b3hash promise runs:
\* read = 0; reader.readAsArrayBuffer(file.slice(read, read + unit)).
StartHash ==
    /\ pc = "buildRequestUrl"
    /\ read' = 0
    /\ pc' = "hashing"
    /\ UNCHANGED <<file, clientOptions, customOptions, opts, path, requests, sessions, outcome, response>>
    /\ UNCHANGED tusVars
    /\ UNCHANGED splitVars
    /\ UNCHANGED urlVars

\* reader.onload: read += unit; if (read < file.size) read the next slice;
\* else nothing: neither resolve nor reject of the b3hash promise is called,
\* and no further event is pending.
ReaderOnload ==
    /\ pc = "hashing"
    /\ read' = read + Unit
    /\ pc' = IF read' < file.size THEN "hashing" ELSE "awaitB3hash"
    /\ UNCHANGED <<file, clientOptions, customOptions, opts, path, requests, sessions, outcome, response>>
    /\ UNCHANGED tusVars
    /\ UNCHANGED splitVars
    /\ UNCHANGED urlVars

\* The code after `await b3hash`: new Upload(file, tusOpts); upload.start().
\* One Upload over the whole file is created whatever opts.numParallelUploads
\* is. It runs once the b3hash promise is settled, which no handler does, so
\* it is no part of Next.
StartTusUpload ==
    /\ pc = "b3hashResolved"
    /\ sessions' = Append(sessions, [start |-> 0, end |-> file.size])
    /\ progress' = Append(progress, 0)
    /\ pc' = "transferring"
    /\ UNCHANGED <<file, clientOptions, customOptions, opts, path, requests, read,
                   outcome, response, events, uploadUrl>>
    /\ UNCHANGED tusError
    /\ UNCHANGED splitVars
    /\ UNCHANGED urlVars

\* uploadDirectory -> uploadDirectoryRequest, up to the await of
\* executeRequest({...opts, endpointPath: opts.endpointDirectoryUpload,
\* method: "post", data: formData, query}). The directory holds `file`.
UploadDirectory ==
    /\ pc = "idle"
    /\ LET o == MergeOptions(clientOptions, customOptions)
       IN /\ opts' = o
          /\ requests' = Append(requests,
                 [method |-> "post", endpointPath |-> o.endpointDirectoryUpload,
                  size |-> file.size])
    /\ path' = "directory"
    /\ pc' = "directoryRequest"
    /\ UNCHANGED <<file, clientOptions, customOptions, read, sessions, outcome, response>>
    /\ UNCHANGED tusVars
    /\ UNCHANGED splitVars
    /\ UNCHANGED urlVars

\* executeRequest answers the directory upload: uploadDirectory returns
\* `${response.data.cid}`.
DirectoryResponse ==
    /\ pc = "directoryRequest"
    /\ \E cid \in {"cid", "undefined"} :
          /\ response' = [kind |-> "response", cid |-> cid]
          /\ outcome' = [kind |-> "returned", value |-> TemplateString(cid)]
    /\ pc' = "done"
    /\ UNCHANGED <<file, clientOptions, customOptions, opts, path, requests, read, sessions>>
    /\ UNCHANGED tusVars
    /\ UNCHANGED splitVars
    /\ UNCHANGED urlVars

\* executeRequest rejects: the await in uploadDirectoryRequest rethrows.
DirectoryError ==
    /\ pc = "directoryRequest"
    /\ \E e \in TransportErrors :
          /\ response' = [kind |-> "error", error |-> e]
          /\ outcome' = [kind |-> "thrown", value |-> e]
    /\ pc' = "failed"
    /\ UNCHANGED <<file, clientOptions, customOptions, opts, path, requests, read, sessions>>
    /\ UNCHANGED tusVars
    /\ UNCHANGED splitVars
    /\ UNCHANGED urlVars

Next ==
    \/ UploadFileSmall
    \/ UploadFileLarge
    \/ SmallResponse
    \/ SmallError
    \/ StartHash
    \/ ReaderOnload
    \/ UploadDirectory
    \/ DirectoryResponse
    \/ DirectoryError

Spec == Init /\ [][Next]_vars

\* Every pending callback of the event loop is eventually run.
FairSpec == Spec /\ WF_vars(Next)

-----------------------------------------------------------------------------
(* The promise that uploadLargeFileRequest returns (upload.ts:377-423),     *)
(* taken from the entry of its executor: the tus engine and the transport   *)
(* are the environment and invoke the callbacks.                            *)

\* formatSkylink(response.headers["s5-skylink"]) of uploadLargeFile.
formatSkylink(skylink) == <<"formatted", skylink>>

TusInit ==
    /\ totalSize = 0 /\ partCount = 0 /\ chunkSize = 0
    /\ splitResult = NotCalled
    /\ file \in [size : FileSizes]
    /\ clientOptions \in OptionObjects
    /\ customOptions \in OptionObjects
    /\ opts = MergeOptions(clientOptions, customOptions)
    /\ ~IsSmallFile(file, opts)
    /\ pc = "b3hashResolved"
    /\ path = "large"
    /\ requests = <<>>
    /\ read = Unit * ((file.size + Unit - 1) \div Unit)
    /\ sessions = <<>>
    /\ outcome = NoOutcome
    /\ response = NoResponse
    /\ events = <<>>
    /\ progress = <<>>
    /\ uploadUrl = "unset"
    /\ tusError = NoError
    /\ UrlIdle

\* The engine creates the upload on the server and sets upload.url.
TusUrlSet ==
    /\ pc = "transferring"
    /\ uploadUrl = "unset"
    /\ uploadUrl' = "set"
    /\ UNCHANGED <<file, clientOptions, customOptions, opts, pc, path, requests, read,
                   sessions, outcome, response, events, progress>>
    /\ UNCHANGED tusError
    /\ UNCHANGED splitVars
    /\ UNCHANGED urlVars

\* onProgress(bytesSent, bytesTotal) of the engine.
TusOnProgress ==
    /\ pc = "transferring"
    /\ \E bytesSent \in {file.size \div 2, file.size} :
          /\ bytesSent > progress[1]
          /\ progress' = [progress EXCEPT ![1] = bytesSent]
    /\ UNCHANGED <<file, clientOptions, customOptions, opts, pc, path, requests, read,
                   sessions, outcome, response, events, uploadUrl>>
    /\ UNCHANGED tusError
    /\ UNCHANGED splitVars
    /\ UNCHANGED urlVars

\* String.prototype.trim, for bodies whose white space is the space.
RECURSIVE TrimStart(_)
TrimStart(str) ==
    IF str # <<>> /\ str[1] = " " THEN TrimStart(Tail(str)) ELSE str

RECURSIVE TrimEnd(_)
TrimEnd(str) ==
    IF str # <<>> /\ str[Len(str)] = " " THEN TrimEnd(SubSeq(str, 1, Len(str) - 1)) ELSE str

trim(str) == TrimEnd(TrimStart(str))

\* Errors the engine reports: a plain Error, or a DetailedError whose
\* originalResponse has this body.
ErrorBodies == { <<" ", "n", "o", "t", " ", "f", "o", "u", "n", "d", " ">>, <<"c", "o", "n", "f", "l", "i", "c", "t", " ", " ", " ">>, <<>> }
EngineErrors ==
    { [name |-> "Error", hasResponse |-> FALSE, body |-> <<>>] }
      \cup { [name |-> "DetailedError", hasResponse |-> TRUE, body |-> body] :
                body \in ErrorBodies }

\* const res = error.originalResponse;
\* const newError = res ? new Error(res.getBody().trim()) || error : error;
newErrorMutant(error) == error

newError(error) ==
    IF error.hasResponse
    THEN [name |-> "Error", message |-> trim(error.body)]
    ELSE error

\* onError: reject(newError).
TusOnError ==
    /\ pc = "transferring"
    /\ \E error \in EngineErrors :
          /\ tusError' = error
          /\ outcome' = [kind |-> "rejected", value |-> newError(error)]
    /\ events' = Append(events, "onError")
    /\ pc' = "failed"
    /\ UNCHANGED <<file, clientOptions, customOptions, opts, path, requests, read,
                   sessions, response, progress, uploadUrl>>
    /\ UNCHANGED splitVars
    /\ UNCHANGED urlVars

\* onSuccess: if (!upload.url) { reject(new Error("'upload.url' was not set")); return; }
TusOnSuccessNoUrlMutant ==
    /\ pc = "transferring"
    /\ uploadUrl = "unset"
    /\ events' = Append(events, "onSuccess")
    /\ requests' = Append(requests,
           [method |-> "head", endpointPath |-> "upload.url", size |-> 0])
    /\ pc' = "probing"
    /\ UNCHANGED <<file, clientOptions, customOptions, opts, path, read,
                   sessions, outcome, response, progress, uploadUrl>>
    /\ UNCHANGED tusError
    /\ UNCHANGED splitVars
    /\ UNCHANGED urlVars

TusOnSuccessNoUrl ==
    /\ pc = "transferring"
    /\ uploadUrl = "unset"
    /\ events' = Append(events, "onSuccess")
    /\ outcome' = [kind |-> "rejected",
                   value |-> [name |-> "Error", message |-> "'upload.url' was not set"]]
    /\ pc' = "failed"
    /\ UNCHANGED <<file, clientOptions, customOptions, opts, path, requests, read,
                   sessions, response, progress, uploadUrl>>
    /\ UNCHANGED tusError
    /\ UNCHANGED splitVars
    /\ UNCHANGED urlVars

\* onSuccess with upload.url set, up to the await of
\* executeRequest({...opts, url: upload.url, method: "head", headers}).
TusOnSuccessProbeMutant ==
    /\ pc = "transferring"
    /\ uploadUrl = "set"
    /\ events' = Append(events, "onSuccess")
    /\ outcome' = [kind |-> "returned", value |-> formatSkylink("undefined")]
    /\ pc' = "done"
    /\ UNCHANGED <<file, clientOptions, customOptions, opts, path, requests, read,
                   sessions, response, progress, uploadUrl>>
    /\ UNCHANGED tusError
    /\ UNCHANGED splitVars
    /\ UNCHANGED urlVars

TusOnSuccessProbe ==
    /\ pc = "transferring"
    /\ uploadUrl = "set"
    /\ events' = Append(events, "onSuccess")
    /\ requests' = Append(requests,
           [method |-> "head", endpointPath |-> "upload.url", size |-> 0])
    /\ pc' = "probing"
    /\ UNCHANGED <<file, clientOptions, customOptions, opts, path, read,
                   sessions, outcome, response, progress, uploadUrl>>
    /\ UNCHANGED tusError
    /\ UNCHANGED splitVars
    /\ UNCHANGED urlVars

\* The probe is answered: resolve(resp); uploadLargeFile then returns
\* { skylink: formatSkylink(resp.headers["s5-skylink"]) }.
ProbeResponse ==
    /\ pc = "probing"
    /\ \E skylink \in {"skylink"} :
          /\ response' = [kind |-> "response", skylink |-> skylink]
          /\ outcome' = [kind |-> "returned", value |-> formatSkylink(skylink)]
    /\ events' = Append(events, "probeResponse")
    /\ pc' = "done"
    /\ UNCHANGED <<file, clientOptions, customOptions, opts, path, requests, read,
                   sessions, progress, uploadUrl>>
    /\ UNCHANGED tusError
    /\ UNCHANGED splitVars
    /\ UNCHANGED urlVars

\* The probe fails: catch (err) { reject(err); }.
ProbeErrorMutant ==
    /\ pc = "probing"
    /\ Len(requests) < 2
    /\ \E e \in TransportErrors : response' = [kind |-> "error", error |-> e]
    /\ events' = Append(events, "probeError")
    /\ requests' = Append(requests,
           [method |-> "head", endpointPath |-> "upload.url", size |-> 0])
    /\ UNCHANGED <<file, clientOptions, customOptions, opts, pc, path, read,
                   sessions, outcome, progress, uploadUrl>>
    /\ UNCHANGED tusError
    /\ UNCHANGED splitVars
    /\ UNCHANGED urlVars

ProbeError ==
    /\ pc = "probing"
    /\ \E e \in TransportErrors :
          /\ response' = [kind |-> "error", error |-> e]
          /\ outcome' = [kind |-> "rejected", value |-> e]
    /\ events' = Append(events, "probeError")
    /\ pc' = "failed"
    /\ UNCHANGED <<file, clientOptions, customOptions, opts, path, requests, read,
                   sessions, progress, uploadUrl>>
    /\ UNCHANGED tusError
    /\ UNCHANGED splitVars
    /\ UNCHANGED urlVars

TusNext ==
    \/ StartTusUpload
    \/ TusUrlSet
    \/ TusOnProgress
    \/ TusOnError
    \/ TusOnSuccessNoUrl
    \/ TusOnSuccessProbe
    \/ ProbeResponse
    \/ ProbeError

TusSpec == TusInit /\ [][TusNext]_vars

(* The same promise when the engine goes on calling its callbacks after its *)
(* first terminal one: resolve and reject of a settled promise do nothing.  *)

\* Most callbacks of the engine and probe completions in one upload.
MaxEvents == 4

\* resolve(v) / reject(e): the promise takes the outcome o if it is pending.
SettleMutant(o) == o

Settle(o) == IF outcome.kind = "pending" THEN o ELSE outcome

\* onError, called after onSuccess or after an earlier onError.
LateOnError ==
    /\ pc \in {"probing", "settledProbing", "failed", "done"}
    /\ Len(events) < MaxEvents
    /\ \E error \in EngineErrors :
          /\ tusError' = error
          /\ outcome' = Settle([kind |-> "rejected", value |-> newError(error)])
    /\ events' = Append(events, "onError")
    /\ pc' = IF pc = "probing" THEN "settledProbing" ELSE pc
    /\ UNCHANGED <<file, clientOptions, customOptions, opts, path, requests, read,
                   sessions, response, progress, uploadUrl>>
    /\ UNCHANGED splitVars
    /\ UNCHANGED urlVars

\* onSuccess, called after the promise has been settled.
LateOnSuccess ==
    /\ pc \in {"failed", "done"}
    /\ Len(events) < MaxEvents
    /\ events' = Append(events, "onSuccess")
    /\ IF uploadUrl = "unset"
       THEN /\ outcome' = Settle([kind |-> "rejected",
                                   value |-> [name |-> "Error",
                                              message |-> "'upload.url' was not set"]])
            /\ UNCHANGED <<requests, pc>>
       ELSE /\ requests' = Append(requests,
                   [method |-> "head", endpointPath |-> "upload.url", size |-> 0])
            /\ pc' = "settledProbing"
            /\ UNCHANGED outcome
    /\ UNCHANGED <<file, clientOptions, customOptions, opts, path, read,
                   sessions, response, progress, uploadUrl>>
    /\ UNCHANGED tusError
    /\ UNCHANGED splitVars
    /\ UNCHANGED urlVars

\* The probe is answered, or fails, after the promise has been settled:
\* resolve(resp), or catch (err) { reject(err); }.
LateProbeCompletion ==
    /\ pc = "settledProbing"
    /\ \/ /\ response' = [kind |-> "response", skylink |-> "skylink"]
          /\ outcome' = Settle([kind |-> "returned", value |-> formatSkylink("skylink")])
          /\ events' = Append(events, "probeResponse")
       \/ \E e \in TransportErrors :
             /\ response' = [kind |-> "error", error |-> e]
             /\ outcome' = Settle([kind |-> "rejected", value |-> e])
             /\ events' = Append(events, "probeError")
    /\ pc' = IF outcome'.kind = "returned" THEN "done" ELSE "failed"
    /\ UNCHANGED <<file, clientOptions, customOptions, opts, path, requests, read,
                   sessions, progress, uploadUrl>>
    /\ UNCHANGED tusError
    /\ UNCHANGED splitVars
    /\ UNCHANGED urlVars

TusLateNext ==
    \/ TusNext
    \/ LateOnError
    \/ LateOnSuccess
    \/ LateProbeCompletion

\* One client without options of its own.
TusLateInit == TusInit /\ clientOptions = NoOptions

TusLateSpec == TusLateInit /\ [][TusLateNext]_vars

-----------------------------------------------------------------------------
(* URL helpers (src/src/utils/url.ts). A string is the sequence of its      *)
(* characters: "ab" is <<"a", "b">>.                                         *)

StartsWith(str, prefix) ==
    Len(str) >= Len(prefix) /\ SubSeq(str, 1, Len(prefix)) = prefix
EndsWith(str, suffix) ==
    Len(str) >= Len(suffix) /\ SubSeq(str, Len(str) - Len(suffix) + 1, Len(str)) = suffix
Slice(str, n) == SubSeq(str, n + 1, Len(str))

\* String.prototype.toLowerCase, on the letters the inputs use in upper case.
UpperToLower == [A |-> "a", H |-> "h", P |-> "p", S |-> "s", T |-> "t"]
toLowerCase(str) ==
    [i \in 1..Len(str) |->
        IF str[i] \in DOMAIN UpperToLower THEN UpperToLower[str[i]] ELSE str[i]]

\* Index of the first "/" of str at or after position i, or 0.
RECURSIVE FirstSlash(_, _)
FirstSlash(str, i) ==
    IF i > Len(str) THEN 0
    ELSE IF str[i] = "/" THEN i
    ELSE FirstSlash(str, i + 1)

\* Index of the first ":" of str at or after position i, or 0.
RECURSIVE FirstColon(_, _)
FirstColon(str, i) ==
    IF i > Len(str) THEN 0
    ELSE IF str[i] = ":" THEN i
    ELSE FirstColon(str, i + 1)

\* str without its leading "/"s.
RECURSIVE SkipSlashes(_)
SkipSlashes(str) ==
    IF str # <<>> /\ str[1] = "/" THEN SkipSlashes(Tail(str)) ELSE str

(* utils/string.ts *)

\* trimSuffix(str, suffix): removes the suffix as often as it occurs.
RECURSIVE trimSuffix(_, _)
trimSuffix(str, suffix) ==
    IF suffix # <<>> /\ EndsWith(str, suffix)
    THEN trimSuffix(SubSeq(str, 1, Len(str) - Len(suffix)), suffix)
    ELSE str

\* trimSuffix(str, suffix, limit): removes at most `limit` occurrences.
RECURSIVE trimSuffixLimit(_, _, _)
trimSuffixLimit(str, suffix, limit) ==
    IF limit > 0 /\ suffix # <<>> /\ EndsWith(str, suffix)
    THEN trimSuffixLimit(SubSeq(str, 1, Len(str) - Len(suffix)), suffix, limit - 1)
    ELSE str

\* trimPrefix(str, prefix): removes the prefix as often as it occurs.
RECURSIVE trimPrefix(_, _)
trimPrefix(str, prefix) ==
    IF prefix # <<>> /\ StartsWith(str, prefix)
    THEN trimPrefix(Slice(str, Len(prefix)), prefix)
    ELSE str

\* trimForwardSlash(str): removes the slashes at both ends.
trimForwardSlash(str) == trimPrefix(trimSuffix(str, <<"/">>), <<"/">>)

\* trimUriPrefix(str, prefix): removes the prefix, compared without case,
\* with or without its trailing slashes.
trimUriPrefix(str, prefix) ==
    LET longPrefix == toLowerCase(prefix)
        shortPrefix == trimSuffix(longPrefix, <<"/">>)
        strLower == toLowerCase(str)
    IN IF StartsWith(strLower, longPrefix) THEN Slice(str, Len(longPrefix))
       ELSE IF StartsWith(strLower, shortPrefix) THEN Slice(str, Len(shortPrefix))
       ELSE str

(* The URL class of the platform, on http and https URLs without query,    *)
(* fragment, credentials, dot segments or characters that are encoded.      *)

NotAUrl == [ok |-> FALSE]

\* What a function yields when `new URL` throws inside it.
TypeError == <<"TypeError">>

\* new URL(str), for a str whose only ":"s end an http or https scheme or
\* start a port: throws (NotAUrl) unless str has the scheme and a host; the
\* host is lower-cased and an empty path is "/".
URL(str) ==
    LET lower == toLowerCase(str)
        protocol == IF StartsWith(lower, <<"h", "t", "t", "p", "s", ":">>) THEN <<"h", "t", "t", "p", "s", ":">>
                    ELSE IF StartsWith(lower, <<"h", "t", "t", "p", ":">>) THEN <<"h", "t", "t", "p", ":">>
                    ELSE <<>>
        rest == SkipSlashes(Slice(str, Len(protocol)))
        slash == FirstSlash(rest, 1)
        authority == IF slash = 0 THEN rest ELSE SubSeq(rest, 1, slash - 1)
        colon == FirstColon(authority, 1)
    IN IF protocol = <<>> \/ authority = <<>> THEN NotAUrl
       ELSE [ok |-> TRUE,
             protocol |-> protocol,
             hostname |-> toLowerCase(IF colon = 0 THEN authority
                                      ELSE SubSeq(authority, 1, colon - 1)),
             port |-> IF colon = 0 THEN <<>> ELSE Slice(authority, colon),
             pathname |-> IF slash = 0 THEN <<"/">> ELSE Slice(rest, slash - 1)]

\* urlObj.toString()
UrlToString(urlObj) ==
    urlObj.protocol \o <<"/", "/">> \o urlObj.hostname
      \o (IF urlObj.port = <<>> THEN <<>> ELSE <<":">> \o urlObj.port)
      \o urlObj.pathname

\* urlObj.hostname = hostname
SetHostname(urlObj, hostname) ==
    IF hostname = <<>> THEN urlObj
    ELSE [urlObj EXCEPT !.hostname = toLowerCase(hostname)]

\* urlObj.pathname = path;
SetPathname(urlObj, pathname) ==
    [urlObj EXCEPT !.pathname =
        IF StartsWith(pathname, <<"/">>) THEN pathname ELSE <<"/">> \o pathname]

(* utils/url.ts *)

\* export const URI_S5_PREFIX = "s5://";
URI_S5_PREFIX == <<"s", "5", ":", "/", "/">>

\* addPath(url, path)
addPath(url, subPath) ==
    LET p == trimForwardSlash(subPath)
        urlObj == URL(url)
    IN IF url = <<"l", "o", "c", "a", "l", "h", "o", "s", "t">> THEN trimSuffix(<<"l", "o", "c", "a", "l", "h", "o", "s", "t", "/">> \o p, <<"/">>)
       ELSE IF ~urlObj.ok THEN TypeError
       ELSE trimSuffix(UrlToString(SetPathname(urlObj, p)), <<"/">>)

\* addUrlSubdomain(url, subdomain)
addUrlSubdomainMutant(url, subdomain) ==
    LET urlObj == URL(url)
    IN IF ~urlObj.ok THEN TypeError
       ELSE trimSuffix(UrlToString(SetHostname(urlObj, urlObj.hostname \o <<".">> \o subdomain)), <<"/">>)

addUrlSubdomain(url, subdomain) ==
    LET urlObj == URL(url)
    IN IF ~urlObj.ok THEN TypeError
       ELSE trimSuffix(UrlToString(SetHostname(urlObj, subdomain \o <<".">> \o urlObj.hostname)), <<"/">>)

\* ensurePrefix(str, prefix)
ensurePrefix(str, prefix) ==
    IF ~StartsWith(str, prefix) THEN prefix \o str ELSE str

\* ensureUrl(url)
ensureUrl(url) ==
    IF StartsWith(url, <<"h", "t", "t", "p", ":", "/", "/">>) THEN url ELSE ensurePrefix(url, <<"h", "t", "t", "p", "s", ":", "/", "/">>)

\* ensureUrlPrefix(url): the test is /^https?:(\/\/)?/i.
ensureUrlPrefixMutant(url) ==
    IF url = <<"l", "o", "c", "a", "l", "h", "o", "s", "t">> THEN <<"h", "t", "t", "p", ":", "/", "/", "l", "o", "c", "a", "l", "h", "o", "s", "t", "/">>
    ELSE IF ~(StartsWith(url, <<"h", "t", "t", "p", ":", "/", "/">>) \/ StartsWith(url, <<"h", "t", "t", "p", "s", ":", "/", "/">>))
         THEN <<"h", "t", "t", "p", "s", ":", "/", "/">> \o url
         ELSE url

ensureUrlPrefix(url) ==
    IF url = <<"l", "o", "c", "a", "l", "h", "o", "s", "t">> THEN <<"h", "t", "t", "p", ":", "/", "/", "l", "o", "c", "a", "l", "h", "o", "s", "t", "/">>
    ELSE IF ~(\/ StartsWith(toLowerCase(url), <<"h", "t", "t", "p", ":">>)
              \/ StartsWith(toLowerCase(url), <<"h", "t", "t", "p", "s", ":">>))
         THEN <<"h", "t", "t", "p", "s", ":", "/", "/">> \o url
         ELSE url

\* domain.split(/\/(.+)/): [domain] without a "/" that a character follows,
\* else [before the first such "/", after it].
SplitOnFirstSlash(str) ==
    LET slash == FirstSlash(str, 1)
    IN IF slash = 0 \/ slash = Len(str)
       THEN [domain |-> str, path |-> <<>>]
       ELSE [domain |-> SubSeq(str, 1, slash - 1), path |-> Slice(str, slash)]

(* urljoin(acc, cur) of the url-join package, on parts without query or    *)
(* fragment.                                                                *)

\* Index of the ":" that ends /^[^/:]+:/ in str, or 0.
ProtocolEnd(str) ==
    LET colon == FirstColon(str, 1)
        slash == FirstSlash(str, 1)
    IN IF colon > 1 /\ (slash = 0 \/ slash > colon) THEN colon ELSE 0

\* str.replace(/^([^/:]+):\/*/, "$1://")
NormalizeProtocol(str) ==
    LET colon == ProtocolEnd(str)
    IN IF colon = 0 THEN str
       ELSE SubSeq(str, 1, colon) \o <<"/", "/">> \o SkipSlashes(Slice(str, colon))

\* component.replace(/[\/]+$/, "/")
CollapseTrailingSlashes(str) ==
    IF EndsWith(str, <<"/">>) THEN trimSuffix(str, <<"/">>) \o <<"/">> ELSE str

urljoin(acc, cur) ==
    LET colon == ProtocolEnd(acc)
        plainProtocol == colon # 0 /\ SkipSlashes(Slice(acc, colon)) = <<>>
        first == NormalizeProtocol(acc)
    IN IF plainProtocol THEN CollapseTrailingSlashes(NormalizeProtocol(acc \o cur))
       ELSE IF first = <<>> /\ cur = <<>> THEN <<>>
       ELSE IF cur = <<>> THEN trimSuffix(first, <<"/">>)
       ELSE IF first = <<>> THEN CollapseTrailingSlashes(SkipSlashes(cur))
       ELSE trimSuffix(first, <<"/">>) \o <<"/">> \o CollapseTrailingSlashes(SkipSlashes(cur))

\* args.reduce((acc, cur) => urljoin(acc, cur)), for a non-empty args
RECURSIVE ReduceUrlJoin(_)
ReduceUrlJoin(args) ==
    IF Len(args) = 1 THEN args[1]
    ELSE urljoin(ReduceUrlJoin(SubSeq(args, 1, Len(args) - 1)), args[Len(args)])

Returned(str) == [status |-> "ok", value |-> str]

\* makeUrl(...args)
makeUrlMutant(args) ==
    IF Len(args) <= 1 THEN throwValidationError("args")
    ELSE Returned(ensureUrl(ReduceUrlJoin(args)))

makeUrl(args) ==
    IF Len(args) = 0 THEN throwValidationError("args")
    ELSE Returned(ensureUrl(ReduceUrlJoin(args)))

\* getFullDomainUrlForPortal(portalUrl, domain)
getFullDomainUrlForPortalMutant(portalUrl, domain) ==
    LET portal == ensureUrlPrefix(trimUriPrefix(portalUrl, <<"h", "t", "t", "p", ":", "/", "/">>))
        parts == SplitOnFirstSlash(trimForwardSlash(trimUriPrefix(domain, URI_S5_PREFIX)))
        url == addUrlSubdomain(portal, parts.domain)
    IN IF url = TypeError THEN TypeError
       ELSE IF parts.path # <<>> THEN addPath(url, parts.path)
       ELSE url

getFullDomainUrlForPortalKeepScheme(portalUrl, domain) ==
    LET portal == ensureUrlPrefix(portalUrl)
        parts == SplitOnFirstSlash(trimForwardSlash(trimUriPrefix(domain, URI_S5_PREFIX)))
        url == IF parts.domain = <<"l", "o", "c", "a", "l", "h", "o", "s", "t">> THEN <<"l", "o", "c", "a", "l", "h", "o", "s", "t">>
               ELSE addUrlSubdomain(portal, parts.domain)
    IN IF url = TypeError THEN TypeError
       ELSE IF parts.path # <<>> THEN addPath(url, parts.path)
       ELSE url

getFullDomainUrlForPortal(portalUrl, domain) ==
    LET portal == ensureUrlPrefix(trimUriPrefix(portalUrl, <<"h", "t", "t", "p", ":", "/", "/">>))
        parts == SplitOnFirstSlash(trimForwardSlash(trimUriPrefix(domain, URI_S5_PREFIX)))
        url == IF parts.domain = <<"l", "o", "c", "a", "l", "h", "o", "s", "t">> THEN <<"l", "o", "c", "a", "l", "h", "o", "s", "t">>
               ELSE addUrlSubdomain(portal, parts.domain)
    IN IF url = TypeError THEN TypeError
       ELSE IF parts.path # <<>> THEN addPath(url, parts.path)
       ELSE url

\* extractDomainForPortal(portalUrl, fullDomain)
extractDomainForPortalMutant(portalUrl, fullDomain) ==
    LET fullDomainObj == URL(fullDomain)
        parts == SplitOnFirstSlash(trimForwardSlash(fullDomain))
        host == IF fullDomainObj.ok THEN fullDomainObj.hostname
                ELSE toLowerCase(parts.domain)
        subPath == IF fullDomainObj.ok THEN trimForwardSlash(fullDomainObj.pathname)
                   ELSE parts.path
        portalUrlObj == URL(ensureUrlPrefix(portalUrl))
        domain == trimSuffixLimit(host, trimForwardSlash(portalUrlObj.hostname), 1)
    IN IF ~portalUrlObj.ok THEN TypeError
       ELSE IF subPath # <<>> THEN domain \o <<"/">> \o trimForwardSlash(subPath)
       ELSE domain

extractDomainForPortalNoPath(portalUrl, fullDomain) ==
    LET fullDomainObj == URL(fullDomain)
        parts == SplitOnFirstSlash(trimForwardSlash(fullDomain))
        host == IF fullDomainObj.ok THEN fullDomainObj.hostname
                ELSE toLowerCase(parts.domain)
        portalUrlObj == URL(ensureUrlPrefix(portalUrl))
        domain == trimSuffix(trimSuffixLimit(host, trimForwardSlash(portalUrlObj.hostname), 1), <<".">>)
    IN IF ~portalUrlObj.ok THEN TypeError
       ELSE domain

extractDomainForPortal(portalUrl, fullDomain) ==
    LET fullDomainObj == URL(fullDomain)
        parts == SplitOnFirstSlash(trimForwardSlash(fullDomain))
        host == IF fullDomainObj.ok THEN fullDomainObj.hostname
                ELSE toLowerCase(parts.domain)
        subPath == IF fullDomainObj.ok THEN trimForwardSlash(fullDomainObj.pathname)
                   ELSE parts.path
        portalUrlObj == URL(ensureUrlPrefix(portalUrl))
        domain == trimSuffix(trimSuffixLimit(host, trimForwardSlash(portalUrlObj.hostname), 1), <<".">>)
    IN IF ~portalUrlObj.ok THEN TypeError
       ELSE IF subPath # <<>> THEN domain \o <<"/">> \o trimForwardSlash(subPath)
       ELSE domain

-----------------------------------------------------------------------------
(* One call of a URL helper, and for two of them a second call on what the  *)
(* first returned.                                                          *)

\* Most parts in one makeUrl call.
MaxArgs == 2

Thrown == [status |-> "typeError"]
Outcome(r) == IF r = TypeError THEN Thrown ELSE Returned(r)

\* Arguments of ensureUrlPrefix.
EnsureUrlPrefixInputs ==
    { <<"l", "o", "c", "a", "l", "h", "o", "s", "t">>, <<"h", "t", "t", "p", ":", "/", "/", "l", "o", "c", "a", "l", "h", "o", "s", "t", "/">>, <<"l", "o", "c", "a", "l", "h", "o", "s", "t", "/">>, <<>>,
      <<"x", ".", "a">>, <<"p", "o", "r", "t", "a", "l", ".", "e", "x", "a", "m", "p", "l", "e">>, <<"h", "t", "t", "p", "x", ".", "a">>, <<"x", "h", "t", "t", "p", ":", "/", "/", "a">>,
      <<"h", "t", "t", "p", ":", "/", "/", "x", ".", "a">>, <<"h", "t", "t", "p", "s", ":", "/", "/", "x", ".", "a">>, <<"h", "t", "t", "p", ":", "x", ".", "a">>, <<"h", "t", "t", "p", "s", ":", "x", ".", "a">>,
      <<"H", "T", "T", "P", ":", "/", "/", "x", ".", "a">>, <<"H", "T", "T", "P", "S", ":", "/", "/", "x", ".", "a">>, <<"H", "t", "t", "p", ":", "x", ".", "a">>, <<"h", "T", "T", "p", "s", ":", "/", "/", "x", ".", "a", "/", "d", "i", "r">> }

\* Portals: a host, with or without a scheme.
PortalPrefixes == { <<>>, <<"h", "t", "t", "p", ":", "/", "/">>, <<"h", "t", "t", "p", "s", ":", "/", "/">> }
PortalHosts == { <<"p", "o", "r", "t", "a", "l", ".", "e", "x", "a", "m", "p", "l", "e">>, <<"P", "o", "r", "t", "a", "l", ".", "e", "x", "a", "m", "p", "l", "e">>, <<"l", "o", "c", "a", "l", "h", "o", "s", "t">> }
PortalUrls == { prefix \o host : prefix \in PortalPrefixes, host \in PortalHosts }

\* Domains: a label, alone or followed by "/" and a path.
Labels == { <<"a", "b", "c", ".", "h", "n", "s">>, <<"a", "b", "c">>, <<"A", "b", "c">>, <<"l", "o", "c", "a", "l", "h", "o", "s", "t">>, <<"a", ".", "p", "o", "r", "t", "a", "l", ".", "e", "x", "a", "m", "p", "l", "e">> }
Paths == { <<>>, <<"d", "i", "r", "/", "f", "i", "l", "e">>, <<"x">> }
Compose(label, p) == IF p = <<>> THEN label ELSE label \o <<"/">> \o p
Domains == { Compose(label, p) : label \in Labels, p \in Paths }

\* Parts of a makeUrl call.
UrlParts == { <<"h", "t", "t", "p", "s", ":", "/", "/", "p", "o", "r", "t", "a", "l", ".", "e", "x", "a", "m", "p", "l", "e">>, <<"h", "t", "t", "p", ":", "/", "/", "p", "o", "r", "t", "a", "l", ".", "e", "x", "a", "m", "p", "l", "e", "/">>, <<"p", "o", "r", "t", "a", "l", ".", "e", "x", "a", "m", "p", "l", "e">>,
              <<"l", "o", "c", "a", "l", "h", "o", "s", "t">>, <<"/", "d", "i", "r", "/">>, <<"f", "i", "l", "e">>,
              <<"H", "T", "T", "P", ":", "/", "/", "x", ".", "a">>, <<"h", "t", "t", "p", "s", ":", "x", ".", "a">> }
RECURSIVE ArgLists(_)
ArgLists(n) ==
    IF n = 0 THEN { <<>> }
    ELSE ArgLists(n - 1)
           \cup { Append(args, part) : args \in { a \in ArgLists(n - 1) : Len(a) = n - 1 },
                                       part \in UrlParts }

(* dist/mjs/constants.d.ts: the compiled download module. *)

\* getCidUrl(cid) on a client whose this.portalUrl() resolves to portalUrl
getCidUrl(portalUrl, cid) == portalUrl \o <<"/">> \o cid

\* getCidUrlForPortal(portalUrl, cid)
getCidUrlForPortal(portalUrl, cid) == <<"a", "d", "d", "U", "r", "l", "Q", "u", "e", "r", "y", "(", "u", "r", "l", ",", " ", "q", "u", "e", "r", "y", ")">>

\* Arguments of getCidUrlForPortal.
CidPortalUrls == { <<"h", "t", "t", "p", "s", ":", "/", "/", "p", "o", "r", "t", "a", "l", ".", "e", "x", "a", "m", "p", "l", "e">>, <<"h", "t", "t", "p", ":", "/", "/", "l", "o", "c", "a", "l", "h", "o", "s", "t">> }
Cids == { <<"z", "5", "a">>, <<"u", "J", "h", "/", "x">> }

\* Arguments of extractDomainForPortal: a portal, and a full URL with or
\* without a scheme, whose host is a label before a portal host or a host
\* of another domain, with or without a path and a trailing "/".
ExtractHosts == { <<"p", "o", "r", "t", "a", "l", ".", "e", "x", "a", "m", "p", "l", "e">>, <<"l", "o", "c", "a", "l", "h", "o", "s", "t">> }
ExtractLabels == { <<"a", "b", "c", ".", "h", "n", "s">>, <<"a", ".", "p", "o", "r", "t", "a", "l", ".", "e", "x", "a", "m", "p", "l", "e">>, <<"A", "b", "c">> }
ForeignHosts == { <<"x", "p", "o", "r", "t", "a", "l", ".", "e", "x", "a", "m", "p", "l", "e">>, <<"o", "t", "h", "e", "r", ".", "e", "x", "a", "m", "p", "l", "e">>, <<"m", "y", "l", "o", "c", "a", "l", "h", "o", "s", "t">> }
FullUrlSchemes == { <<>>, <<"h", "t", "t", "p", ":", "/", "/">>, <<"h", "t", "t", "p", "s", ":", "/", "/">> }
TrailingSlashes == { <<>>, <<"/">> }
PathSuffix(p) == IF p = <<>> THEN <<>> ELSE <<"/">> \o p
FullUrl(scheme, host, p, trailing) == scheme \o host \o PathSuffix(p) \o trailing
FullUrls ==
    { FullUrl(scheme, host, p, trailing) :
        scheme \in FullUrlSchemes,
        host \in { label \o <<".">> \o h : label \in ExtractLabels, h \in ExtractHosts }
                   \cup ForeignHosts,
        p \in Paths,
        trailing \in TrailingSlashes }

UrlInit ==
    /\ totalSize = 0 /\ partCount = 0 /\ chunkSize = 0
    /\ splitResult = NotCalled
    /\ UploadIdle
    /\ urlFn \in {"ensureUrlPrefix", "makeUrl", "getFullDomainUrlForPortal",
                  "getCidUrlForPortal", "extractDomainForPortal"}
    /\ urlArgs \in CASE urlFn = "ensureUrlPrefix" -> { <<url>> : url \in EnsureUrlPrefixInputs }
                     [] urlFn = "makeUrl" -> ArgLists(MaxArgs)
                     [] urlFn = "getCidUrlForPortal" ->
                            { <<portalUrl, cid>> : portalUrl \in CidPortalUrls, cid \in Cids }
                     [] urlFn = "extractDomainForPortal" ->
                            { <<portalUrl, fullUrl>> : portalUrl \in PortalUrls,
                                                       fullUrl \in FullUrls }
                     [] OTHER -> { <<portalUrl, domain>> : portalUrl \in PortalUrls,
                                                           domain \in Domains }
    /\ urlResult = NoResult
    /\ urlResult2 = NoResult

EnsureUrlPrefixCall ==
    /\ urlFn = "ensureUrlPrefix"
    /\ urlResult = NoResult
    /\ urlResult' = Returned(ensureUrlPrefix(urlArgs[1]))
    /\ UNCHANGED <<urlFn, urlArgs, urlResult2>>
    /\ UNCHANGED <<splitVars, uploadVars>>

\* ensureUrlPrefix applied to what ensureUrlPrefix returned.
EnsureUrlPrefixAgain ==
    /\ urlFn = "ensureUrlPrefix"
    /\ urlResult.status = "ok"
    /\ urlResult2 = NoResult
    /\ urlResult2' = Returned(ensureUrlPrefix(urlResult.value))
    /\ UNCHANGED <<urlFn, urlArgs, urlResult>>
    /\ UNCHANGED <<splitVars, uploadVars>>

MakeUrlCall ==
    /\ urlFn = "makeUrl"
    /\ urlResult = NoResult
    /\ urlResult' = makeUrl(urlArgs)
    /\ UNCHANGED <<urlFn, urlArgs, urlResult2>>
    /\ UNCHANGED <<splitVars, uploadVars>>

GetFullDomainUrlForPortalCall ==
    /\ urlFn = "getFullDomainUrlForPortal"
    /\ urlResult = NoResult
    /\ urlResult' = Outcome(getFullDomainUrlForPortal(urlArgs[1], urlArgs[2]))
    /\ UNCHANGED <<urlFn, urlArgs, urlResult2>>
    /\ UNCHANGED <<splitVars, uploadVars>>

\* extractDomainForPortal(portalUrl, getFullDomainUrlForPortal(portalUrl, domain))
ExtractDomainForPortalCall ==
    /\ urlFn = "getFullDomainUrlForPortal"
    /\ urlResult.status = "ok"
    /\ urlResult2 = NoResult
    /\ urlResult2' = Outcome(extractDomainForPortal(urlArgs[1], urlResult.value))
    /\ UNCHANGED <<urlFn, urlArgs, urlResult>>
    /\ UNCHANGED <<splitVars, uploadVars>>

GetCidUrlForPortalCall ==
    /\ urlFn = "getCidUrlForPortal"
    /\ urlResult = NoResult
    /\ urlResult' = Returned(getCidUrlForPortal(urlArgs[1], urlArgs[2]))
    /\ UNCHANGED <<urlFn, urlArgs, urlResult2>>
    /\ UNCHANGED <<splitVars, uploadVars>>

\* getCidUrl(cid) on a client of the same portal, for the same cid.
GetCidUrlCall ==
    /\ urlFn = "getCidUrlForPortal"
    /\ urlResult2 = NoResult
    /\ urlResult2' = Returned(getCidUrl(urlArgs[1], urlArgs[2]))
    /\ UNCHANGED <<urlFn, urlArgs, urlResult>>
    /\ UNCHANGED <<splitVars, uploadVars>>

\* extractDomainForPortal(portalUrl, fullDomain) on a full URL of the caller.
ExtractDomainCall ==
    /\ urlFn = "extractDomainForPortal"
    /\ urlResult = NoResult
    /\ urlResult' = Outcome(extractDomainForPortal(urlArgs[1], urlArgs[2]))
    /\ UNCHANGED <<urlFn, urlArgs, urlResult2>>
    /\ UNCHANGED <<splitVars, uploadVars>>

UrlNext ==
    \/ EnsureUrlPrefixCall
    \/ EnsureUrlPrefixAgain
    \/ MakeUrlCall
    \/ GetFullDomainUrlForPortalCall
    \/ ExtractDomainForPortalCall
    \/ GetCidUrlForPortalCall
    \/ GetCidUrlCall
    \/ ExtractDomainCall

UrlSpec == UrlInit /\ [][UrlNext]_vars

-----------------------------------------------------------------------------
(* Properties of the partitioner, checked under SplitSpec.                  *)

Called == splitResult.status # "notCalled"
ValidInput == partCount >= 1 /\ chunkSize >= 1 /\ totalSize > chunkSize
Parts == splitResult.parts
PartSize(i) == Parts[i].end - Parts[i].start
Unaligned == { i \in 1..Len(Parts) : PartSize(i) % chunkSize # 0 }

\* C1: for every valid input the returned parts exactly tile [0, totalSize):
\* the first part starts at 0, each part starts where the previous one ends,
\* start <= end in every part, and the last part ends at totalSize.
C1_PartsTile ==
    (Called /\ ValidInput) =>
        /\ Len(Parts) >= 1
        /\ Parts[1].start = 0
        /\ \A i \in 2..Len(Parts) : Parts[i].start = Parts[i - 1].end
        /\ \A i \in 1..Len(Parts) : Parts[i].start <= Parts[i].end
        /\ Parts[Len(Parts)].end = totalSize

C1_Witness ==
    /\ Called /\ ValidInput
    /\ partCount >= 3
    /\ totalSize % chunkSize # 0
    /\ Len(Parts) = partCount
    /\ Parts[Len(Parts)].end = totalSize

\* C2: for every valid input at most one returned part has a size that is
\* not a multiple of chunkSize.
C2_AtMostOneUnaligned ==
    (Called /\ ValidInput) => Cardinality(Unaligned) <= 1

C2_Witness ==
    /\ Called /\ ValidInput
    /\ partCount >= 2
    /\ Cardinality(Unaligned) = 1

\* C3: the call fails with a validation error and returns no parts exactly
\* when partCount < 1, chunkSize < 1 or totalSize <= chunkSize; it succeeds
\* on every other input.
C3_ValidationErrors ==
    Called =>
        /\ (partCount < 1 \/ chunkSize < 1 \/ totalSize <= chunkSize)
             => (splitResult.status = "validationError" /\ Parts = <<>>)
        /\ ValidInput => splitResult.status = "ok"

C3_Witness ==
    /\ Called
    /\ partCount >= 1 /\ chunkSize >= 1 /\ totalSize = chunkSize
    /\ splitResult.status = "validationError"
    /\ Parts = <<>>

\* C4: for every valid input, part i has size chunkSize times the number of
\* j in [0, fullChunks) with j mod partCount = i, plus the leftover when
\* i = min(fullChunks, partCount - 1) and the leftover is positive; and
\* (25, 2, 10) yields [{0,10},{10,25}].
C4_ClosedForm ==
    (Called /\ ValidInput) =>
        LET fullChunks == totalSize \div chunkSize
            leftover == totalSize % chunkSize
        IN /\ Len(Parts) = partCount
           /\ \A i \in 0..(partCount - 1) :
                PartSize(i + 1) =
                    chunkSize * Cardinality({ j \in 0..(fullChunks - 1) : j % partCount = i })
                    + (IF i = Min(fullChunks, partCount - 1) /\ leftover > 0
                       THEN leftover ELSE 0)
           /\ (totalSize = 25 /\ partCount = 2 /\ chunkSize = 10)
                => Parts = << [start |-> 0, end |-> 10], [start |-> 10, end |-> 25] >>

C4_Witness ==
    /\ Called
    /\ totalSize = 25 /\ partCount = 2 /\ chunkSize = 10
    /\ Parts = << [start |-> 0, end |-> 10], [start |-> 10, end |-> 25] >>

\* C5: for every valid input the sizes of any two returned parts differ by
\* at most chunkSize + (totalSize mod chunkSize).
C5_Balanced ==
    (Called /\ ValidInput) =>
        \A i, j \in 1..Len(Parts) :
            PartSize(i) - PartSize(j) <= chunkSize + (totalSize % chunkSize)

C5_Witness ==
    /\ Called /\ ValidInput
    /\ totalSize % chunkSize # 0
    /\ \E i, j \in 1..Len(Parts) : PartSize(i) - PartSize(j) = chunkSize

-----------------------------------------------------------------------------
(* Properties of uploadFile, checked under Spec and FairSpec.               *)

Has(o, k) == k \in DOMAIN o

\* C7: uploadFile takes the small path (one request to the small-upload
\* endpoint) exactly when file.size < largeFileSize * chunkSizeMultiplier of
\* the merged options, and the large path otherwise; with largeFileSize =
\* 40 MiB and multiplier 1 a 100 MiB file goes large and a 10 MiB file small.
C7_PathByThreshold ==
    LET lfs == IF Has(customOptions, "largeFileSize") THEN customOptions.largeFileSize
               ELSE IF Has(clientOptions, "largeFileSize") THEN clientOptions.largeFileSize
               ELSE TUS_CHUNK_SIZE
        mul == IF Has(customOptions, "chunkSizeMultiplier") THEN customOptions.chunkSizeMultiplier
               ELSE IF Has(clientOptions, "chunkSizeMultiplier") THEN clientOptions.chunkSizeMultiplier
               ELSE 3
    IN (pc # "idle" /\ path # "directory") =>
        /\ path \in {"small", "large"}
        /\ (path = "small") <=> (file.size < lfs * mul)
        /\ (path = "small") =>
              /\ Len(requests) = 1
              /\ requests[1].endpointPath = "/s5/upload"
              /\ sessions = <<>>
        /\ (path = "large") => requests = <<>>
        /\ (lfs = 40 * 1048576 /\ mul = 1 /\ file.size = 100 * 1048576) => path = "large"
        /\ (lfs = 40 * 1048576 /\ mul = 1 /\ file.size = 10 * 1048576) => path = "small"

C7_Witness ==
    /\ pc # "idle"
    /\ path = "large"
    /\ file.size = 100 * 1048576
    /\ customOptions = [largeFileSize |-> 40 * 1048576, chunkSizeMultiplier |-> 1]
    /\ clientOptions = NoOptions

\* C8: with the default options (no client-level or call-level override)
\* every file of size >= 41943040 goes through the large path and every
\* smaller file through the small path.
C8_DefaultThreshold ==
    (pc # "idle" /\ path # "directory"
       /\ clientOptions = NoOptions /\ customOptions = NoOptions) =>
        ((path = "large") <=> (file.size >= 41943040))

\* C9: every large-path upload eventually starts its resumable session and
\* its promise is eventually resolved or rejected.
C9_LargeUploadTerminates ==
    /\ (path = "large") ~> (sessions # <<>>)
    /\ (path = "large") ~> (pc \in {"done", "failed"})

\* C10: a large upload opens one session per part of the partitioner when
\* numParallelUploads > 1, and one session spanning the whole object when
\* numParallelUploads = 1.
ExpectedSessions ==
    LET split == splitSizeIntoChunkAlignedParts(file.size, opts.numParallelUploads,
                                                TUS_CHUNK_SIZE)
    IN IF opts.numParallelUploads > 1 /\ split.status = "ok"
       THEN split.parts
       ELSE << [start |-> 0, end |-> file.size] >>

C10_SessionPerPart ==
    (path = "large") ~> (path = "large" /\ sessions = ExpectedSessions)

\* C11: when staggerPercent is set and a large upload has more than one
\* part, part k+1 is never started before the reported progress of part k
\* has reached staggerPercent / 100; when staggerPercent is null all parts
\* are started (simultaneously).
C11_Staggered ==
    /\ [](( /\ path = "large"
            /\ opts.staggerPercent # Null )
          => \A k \in 2..Len(sessions) :
                progress[k - 1] * 100
                  >= opts.staggerPercent * (sessions[k - 1].end - sessions[k - 1].start))
    /\ (path = "large" /\ opts.staggerPercent = Null)
          ~> (path = "large" /\ sessions = ExpectedSessions)

-----------------------------------------------------------------------------
(* Properties of the promise of uploadLargeFileRequest, checked under       *)
(* TusSpec.                                                                 *)

Occurs(e) == \E i \in 1..Len(events) : events[i] = e
Probes == { i \in 1..Len(requests) : requests[i].method = "head" }

\* C12: the probe (HEAD) request is issued only after the resumable session
\* has signalled success, and the upload reaches Done only after that probe
\* has returned successfully: no execution reaches Done without a session
\* success followed by a successful probe.
C12_ProbeAfterSuccess ==
    /\ (Probes # {}) => Occurs("onSuccess")
    /\ (pc = "probing") => (Probes # {} /\ ~Occurs("probeResponse"))
    /\ (pc = "done") =>
          /\ Probes # {}
          /\ response.kind = "response"
          /\ \E i, j \in 1..Len(events) :
                i < j /\ events[i] = "onSuccess" /\ events[j] = "probeResponse"

C12_Witness ==
    /\ pc = "done"
    /\ path = "large"
    /\ Probes # {}
    /\ events = <<"onSuccess", "probeResponse">>
    /\ outcome.kind = "returned"

\* C13: if the engine signals success while upload.url is not set, the
\* large upload ends in Failed with a fatal error and no probe request is
\* ever issued for it.
C13_NoUrlIsFatal ==
    (Occurs("onSuccess") /\ uploadUrl = "unset") =>
        /\ pc = "failed"
        /\ outcome = [kind |-> "rejected",
                      value |-> [name |-> "Error", message |-> "'upload.url' was not set"]]
        /\ Probes = {}

C13_Witness ==
    /\ Occurs("onSuccess")
    /\ uploadUrl = "unset"
    /\ pc = "failed"
    /\ requests = <<>>

-----------------------------------------------------------------------------
(* Properties of the small and directory uploads, checked under Spec.       *)

\* C14: uploadSmallFile and uploadDirectory throw when the request succeeds
\* but the response holds no content identifier; they then return no value.
C14_ThrowsOnIncompleteResponse ==
    ( /\ path \in {"small", "directory"}
      /\ response.kind = "response"
      /\ response.cid = "undefined" )
        => outcome.kind = "thrown"

\* C15: on the small path uploadFile issues exactly one POST request to the
\* small-upload endpoint carrying the whole file and never another one; it
\* returns the identifier of that response, and when the request fails the
\* caller gets the same error, unmodified.
C15_SmallPathOneRequest ==
    (path = "small") =>
        /\ requests = << [method |-> "post", endpointPath |-> "/s5/upload",
                          size |-> file.size] >>
        /\ sessions = <<>>
        /\ (pc = "smallRequest") => (outcome = NoOutcome)
        /\ (response.kind = "response" /\ response.cid # "undefined")
              => (pc = "done" /\ outcome = [kind |-> "returned", value |-> response.cid])
        /\ (response.kind = "error")
              => (pc = "failed" /\ outcome = [kind |-> "thrown", value |-> response.error])
        /\ pc \in {"smallRequest", "done", "failed"}

C15_Witness ==
    /\ path = "small"
    /\ pc = "failed"
    /\ Len(requests) = 1
    /\ response = [kind |-> "error", error |-> "networkError"]
    /\ outcome = [kind |-> "thrown", value |-> "networkError"]

-----------------------------------------------------------------------------
(* Properties of the URL helpers (UrlSpec).                                 *)

Schemes == { <<"h", "t", "t", "p", ":", "/", "/">>, <<"h", "t", "t", "p", "s", ":", "/", "/">> }

\* getFullDomainUrlForPortal has returned for a portal with this host and a
\* domain of the form label or label/path, label other than "localhost".
SubdomainCase(prefix, host, label, p) ==
    /\ urlFn = "getFullDomainUrlForPortal"
    /\ urlResult # NoResult
    /\ urlArgs = <<prefix \o host, Compose(label, p)>>
    /\ label # <<"l", "o", "c", "a", "l", "h", "o", "s", "t">>

C16_Example ==
    (/\ urlFn = "getFullDomainUrlForPortal"
     /\ urlResult # NoResult
     /\ urlArgs = <<<<"h", "t", "t", "p", "s", ":", "/", "/", "p", "o", "r", "t", "a", "l", ".", "e", "x", "a", "m", "p", "l", "e">>, <<"a", "b", "c", ".", "h", "n", "s", "/", "d", "i", "r", "/", "f", "i", "l", "e">>>>)
        => urlResult = Returned(<<"h", "t", "t", "p", "s", ":", "/", "/", "a", "b", "c", ".", "h", "n", "s", ".", "p", "o", "r", "t", "a", "l", ".", "e", "x", "a", "m", "p", "l", "e", "/", "d", "i", "r", "/", "f", "i", "l", "e">>)

\* C16, as stated: for a portal with host H and a domain label or label/path,
\* label other than "localhost", getFullDomainUrlForPortal returns a URL whose
\* host is label.H, followed by /path when there is a path, and that never
\* ends in "/"; ("https://portal.example", "abc.hns/dir/file") gives
\* "https://abc.hns.portal.example/dir/file".
C16_SubdomainUrl ==
    /\ C16_Example
    /\ \A prefix \in PortalPrefixes, host \in PortalHosts, label \in Labels, p \in Paths :
         SubdomainCase(prefix, host, label, p) =>
            /\ urlResult.status = "ok"
            /\ \E scheme \in Schemes :
                 urlResult.value = scheme \o label \o <<".">> \o host \o PathSuffix(p)
            /\ ~EndsWith(urlResult.value, <<"/">>)

\* C16, amended: the host of the returned URL is label.H in lower case; the
\* path follows as given and the result never ends in "/".
C16_LowerCasedSubdomainUrl ==
    /\ C16_Example
    /\ \A prefix \in PortalPrefixes, host \in PortalHosts, label \in Labels, p \in Paths :
         SubdomainCase(prefix, host, label, p) =>
            /\ urlResult.status = "ok"
            /\ \E scheme \in Schemes :
                 urlResult.value =
                    scheme \o toLowerCase(label \o <<".">> \o host) \o PathSuffix(p)
            /\ ~EndsWith(urlResult.value, <<"/">>)

C16_Witness ==
    /\ urlFn = "getFullDomainUrlForPortal"
    /\ urlArgs = <<<<"h", "t", "t", "p", ":", "/", "/", "P", "o", "r", "t", "a", "l", ".", "e", "x", "a", "m", "p", "l", "e">>, <<"A", "b", "c", "/", "d", "i", "r", "/", "f", "i", "l", "e">>>>
    /\ urlResult = Returned(<<"h", "t", "t", "p", "s", ":", "/", "/", "a", "b", "c", ".", "p", "o", "r", "t", "a", "l", ".", "e", "x", "a", "m", "p", "l", "e", "/", "d", "i", "r", "/", "f", "i", "l", "e">>)

\* C17: when the label of the domain is exactly "localhost",
\* getFullDomainUrlForPortal returns "localhost", or "localhost/path" when
\* there is a path, whatever the portal URL.
C17_LocalhostIgnoresPortal ==
    \A portalUrl \in PortalUrls, p \in Paths :
       (/\ urlFn = "getFullDomainUrlForPortal"
        /\ urlResult # NoResult
        /\ urlArgs = <<portalUrl, Compose(<<"l", "o", "c", "a", "l", "h", "o", "s", "t">>, p)>>)
          => urlResult = Returned(Compose(<<"l", "o", "c", "a", "l", "h", "o", "s", "t">>, p))

C17_Witness ==
    /\ urlFn = "getFullDomainUrlForPortal"
    /\ urlArgs = <<<<"h", "t", "t", "p", "s", ":", "/", "/", "p", "o", "r", "t", "a", "l", ".", "e", "x", "a", "m", "p", "l", "e">>, <<"l", "o", "c", "a", "l", "h", "o", "s", "t", "/", "d", "i", "r", "/", "f", "i", "l", "e">>>>
    /\ urlResult = Returned(<<"l", "o", "c", "a", "l", "h", "o", "s", "t", "/", "d", "i", "r", "/", "f", "i", "l", "e">>)

\* extractDomainForPortal has returned for what getFullDomainUrlForPortal made
\* of a label-only domain and a portal whose host is not a suffix of the label.
RoundTripCase(prefix, host, label) ==
    /\ urlFn = "getFullDomainUrlForPortal"
    /\ urlResult2 # NoResult
    /\ urlArgs = <<prefix \o host, label>>
    /\ ~EndsWith(label, host)

\* C18, as stated: extractDomainForPortal(portal, getFullDomainUrlForPortal(
\* portal, domain)) is domain, for every label-only domain and every portal
\* whose host is not a suffix of the label.
C18_RoundTrip ==
    \A prefix \in PortalPrefixes, host \in PortalHosts, label \in Labels :
       RoundTripCase(prefix, host, label) => urlResult2 = Returned(label)

\* C18, amended: the round trip returns the domain in lower case, so the
\* domain itself when it has no upper-case letter.
C18_RoundTripLowerCases ==
    \A prefix \in PortalPrefixes, host \in PortalHosts, label \in Labels :
       RoundTripCase(prefix, host, label) => urlResult2 = Returned(toLowerCase(label))

C18_Witness ==
    /\ urlFn = "getFullDomainUrlForPortal"
    /\ urlArgs = <<<<"h", "t", "t", "p", "s", ":", "/", "/", "p", "o", "r", "t", "a", "l", ".", "e", "x", "a", "m", "p", "l", "e">>, <<"A", "b", "c">>>>
    /\ urlResult = Returned(<<"h", "t", "t", "p", "s", ":", "/", "/", "a", "b", "c", ".", "p", "o", "r", "t", "a", "l", ".", "e", "x", "a", "m", "p", "l", "e">>)
    /\ urlResult2 = Returned(<<"a", "b", "c">>)

\* The input starts with http: or https:, in any case of the letters.
HasHttpScheme(url) ==
    \/ toLowerCase(SubSeq(url, 1, Min(Len(url), 5))) = <<"h", "t", "t", "p", ":">>
    \/ toLowerCase(SubSeq(url, 1, Min(Len(url), 6))) = <<"h", "t", "t", "p", "s", ":">>

\* C19: ensureUrlPrefix returns "http://localhost/" for "localhost", the input
\* unchanged when it starts with http: or https: (in any case, with or without
\* "//"), and "https://" + input otherwise; applying it to its own result
\* changes nothing.
C19_EnsureUrlPrefix ==
    (urlFn = "ensureUrlPrefix" /\ urlResult # NoResult) =>
        /\ urlResult.status = "ok"
        /\ (urlArgs[1] = <<"l", "o", "c", "a", "l", "h", "o", "s", "t">>)
              => urlResult.value = <<"h", "t", "t", "p", ":", "/", "/", "l", "o", "c", "a", "l", "h", "o", "s", "t", "/">>
        /\ (urlArgs[1] # <<"l", "o", "c", "a", "l", "h", "o", "s", "t">> /\ HasHttpScheme(urlArgs[1]))
              => urlResult.value = urlArgs[1]
        /\ (urlArgs[1] # <<"l", "o", "c", "a", "l", "h", "o", "s", "t">> /\ ~HasHttpScheme(urlArgs[1]))
              => urlResult.value = <<"h", "t", "t", "p", "s", ":", "/", "/">> \o urlArgs[1]
        /\ (urlResult2 # NoResult) => urlResult2 = urlResult

C19_Witness ==
    /\ urlFn = "ensureUrlPrefix"
    /\ urlArgs = << <<"H", "T", "T", "P", ":", "/", "/", "x", ".", "a">> >>
    /\ urlResult = Returned(<<"H", "T", "T", "P", ":", "/", "/", "x", ".", "a">>)
    /\ urlResult2 = Returned(<<"H", "T", "T", "P", ":", "/", "/", "x", ".", "a">>)

\* C20: makeUrl called without an argument fails with a validation error and
\* returns no URL; called with one argument or more it does not fail so.
C20_MakeUrlNeedsArgs ==
    (urlFn = "makeUrl" /\ urlResult # NoResult) =>
        /\ (Len(urlArgs) = 0) => urlResult = throwValidationError("args")
        /\ (Len(urlArgs) >= 1) => urlResult.status = "ok"

C20_Witness ==
    /\ urlFn = "makeUrl"
    /\ urlArgs = <<>>
    /\ urlResult.status = "validationError"

\* C21: for a non-empty argument list, makeUrl returns ensureUrlPrefix of the
\* parts joined from the left by urljoin, "localhost" and strings with an
\* upper-case or slash-less scheme included.
C21_MakeUrlIsEnsureUrlPrefix ==
    (urlFn = "makeUrl" /\ urlResult # NoResult /\ Len(urlArgs) >= 1) =>
        urlResult = Returned(ensureUrlPrefix(ReduceUrlJoin(urlArgs)))

\* C22: getCidUrlForPortal(portalUrl, cid) returns the URL that getCidUrl(cid)
\* returns on a client whose portal URL is portalUrl.
C22_CidUrlSameAsClient ==
    (/\ urlFn = "getCidUrlForPortal"
     /\ urlResult # NoResult
     /\ urlResult2 # NoResult) => urlResult = urlResult2

-----------------------------------------------------------------------------
(* More properties of the promise of uploadLargeFileRequest (TusSpec).      *)

\* C23: when the engine reports its final error, the large upload is Failed
\* and the caller gets an error whose message is the trimmed body of the
\* original response when the engine's error has one, and the engine's error
\* itself otherwise; no session and no request is started after the error.
C23_FinalErrorPropagated ==
    Occurs("onError") =>
        /\ pc = "failed"
        /\ outcome.kind = "rejected"
        /\ tusError.hasResponse =>
              /\ outcome.value.name = "Error"
              /\ outcome.value.message = trim(tusError.body)
              /\ (outcome.value.message = <<>>
                    \/ (/\ outcome.value.message[1] # " "
                        /\ outcome.value.message[Len(outcome.value.message)] # " "))
        /\ (~tusError.hasResponse) => outcome.value = tusError
        /\ Len(sessions) = 1
        /\ requests = <<>>

C23_Witness ==
    /\ events = <<"onError">>
    /\ tusError = [name |-> "DetailedError", hasResponse |-> TRUE, body |-> <<" ", "n", "o", "t", " ", "f", "o", "u", "n", "d", " ">>]
    /\ outcome = [kind |-> "rejected", value |-> [name |-> "Error", message |-> <<"n", "o", "t", " ", "f", "o", "u", "n", "d">>]]
    /\ pc = "failed"

\* C24: a failed metadata probe is reported to the caller as the failure of
\* the upload and is not retried: at most one probe request is issued per
\* large upload, and a failed probe leads to Failed, never to Done.
C24_ProbeFailureNotRetried ==
    /\ Cardinality(Probes) <= 1
    /\ Occurs("probeError") =>
          /\ pc = "failed"
          /\ response.kind = "error"
          /\ outcome = [kind |-> "rejected", value |-> response.error]
          /\ ~Occurs("probeResponse")

C24_Witness ==
    /\ events = <<"onSuccess", "probeError">>
    /\ Cardinality(Probes) = 1
    /\ pc = "failed"
    /\ outcome.kind = "rejected"

-----------------------------------------------------------------------------
(* More properties of the URL helpers (UrlSpec).                            *)

\* getFullDomainUrlForPortal has returned for this portal and domain.
FullDomainCall(portalUrl, domain) ==
    /\ urlFn = "getFullDomainUrlForPortal"
    /\ urlResult # NoResult
    /\ urlArgs = <<portalUrl, domain>>

\* C25, as stated: for every portal host H and every domain the results of
\* getFullDomainUrlForPortal for the portals "H", "http://H" and "https://H"
\* are identical.
C25_SchemeIndependent ==
    \A prefix \in PortalPrefixes, host \in PortalHosts, domain \in Domains :
       FullDomainCall(prefix \o host, domain) =>
          \A other \in PortalPrefixes :
             urlResult = Outcome(getFullDomainUrlForPortal(other \o host, domain))

\* C25, amended: the three results are identical for every portal host other
\* than "localhost"; for the host "localhost" the results for "H" and
\* "http://H" are identical.
C25_SchemeIndependentButLocalhost ==
    \A prefix \in PortalPrefixes, host \in PortalHosts, domain \in Domains :
       FullDomainCall(prefix \o host, domain) =>
          \A other \in PortalPrefixes :
             (host # <<"l", "o", "c", "a", "l", "h", "o", "s", "t">> \/ {prefix, other} \subseteq {<<>>, <<"h", "t", "t", "p", ":", "/", "/">>}) =>
                urlResult = Outcome(getFullDomainUrlForPortal(other \o host, domain))

C25_Witness ==
    /\ FullDomainCall(<<"h", "t", "t", "p", ":", "/", "/", "p", "o", "r", "t", "a", "l", ".", "e", "x", "a", "m", "p", "l", "e">>, <<"a", "b", "c", ".", "h", "n", "s", "/", "d", "i", "r", "/", "f", "i", "l", "e">>)
    /\ urlResult = Returned(<<"h", "t", "t", "p", "s", ":", "/", "/", "a", "b", "c", ".", "h", "n", "s", ".", "p", "o", "r", "t", "a", "l", ".", "e", "x", "a", "m", "p", "l", "e", "/", "d", "i", "r", "/", "f", "i", "l", "e">>)
    /\ urlResult = Outcome(getFullDomainUrlForPortal(<<"p", "o", "r", "t", "a", "l", ".", "e", "x", "a", "m", "p", "l", "e">>, <<"a", "b", "c", ".", "h", "n", "s", "/", "d", "i", "r", "/", "f", "i", "l", "e">>))

\* extractDomainForPortal has returned for this portal and full URL.
ExtractCall(portalUrl, fullUrl) ==
    /\ urlFn = "extractDomainForPortal"
    /\ urlResult # NoResult
    /\ urlArgs = <<portalUrl, fullUrl>>

\* C26: for a portal with host H and a full URL whose host is L.H (a host
\* being in lower case) and whose path is p, extractDomainForPortal returns L
\* when p is empty and L/p otherwise, without a trailing "/"; one trailing
\* occurrence of H is removed, so that the host a.H.H yields a.H.
C26_ExtractsLabelAndPath ==
    \A prefix \in PortalPrefixes, portalHost \in PortalHosts,
       scheme \in FullUrlSchemes, label \in ExtractLabels, p \in Paths,
       trailing \in TrailingSlashes :
       LET h == toLowerCase(portalHost)
       IN ExtractCall(prefix \o portalHost, FullUrl(scheme, label \o <<".">> \o h, p, trailing)) =>
             /\ urlResult = Returned(Compose(toLowerCase(label), p))
             /\ ~EndsWith(urlResult.value, <<"/">>)

C26_Witness ==
    /\ ExtractCall(<<"h", "t", "t", "p", "s", ":", "/", "/", "p", "o", "r", "t", "a", "l", ".", "e", "x", "a", "m", "p", "l", "e">>, <<"h", "t", "t", "p", "s", ":", "/", "/", "a", ".", "p", "o", "r", "t", "a", "l", ".", "e", "x", "a", "m", "p", "l", "e", ".", "p", "o", "r", "t", "a", "l", ".", "e", "x", "a", "m", "p", "l", "e", "/", "d", "i", "r", "/", "f", "i", "l", "e", "/">>)
    /\ urlResult = Returned(<<"a", ".", "p", "o", "r", "t", "a", "l", ".", "e", "x", "a", "m", "p", "l", "e", "/", "d", "i", "r", "/", "f", "i", "l", "e">>)

\* C30: when the host of the full URL is neither the portal host H nor of
\* the form L.H, extractDomainForPortal returns the host unchanged, followed
\* by its path, even if the characters of the host end with those of H.
C30_StripsAtLabelBoundary ==
    \A prefix \in PortalPrefixes, portalHost \in PortalHosts,
       scheme \in FullUrlSchemes, host \in ForeignHosts, p \in Paths,
       trailing \in TrailingSlashes :
       LET h == toLowerCase(portalHost)
       IN (/\ ExtractCall(prefix \o portalHost, FullUrl(scheme, host, p, trailing))
           /\ host # h
           /\ ~EndsWith(host, <<".">> \o h))
             => urlResult = Returned(Compose(host, p))

-----------------------------------------------------------------------------
(* More properties of the partitioner (SplitSpec).                          *)

\* Math.ceil(totalSize / chunkSize)
CeilDiv(a, b) == (a + b - 1) \div b

\* C27: for every valid input the function returns exactly partCount parts,
\* and the part of index i (from 0) is empty exactly when
\* i >= ceil(totalSize / chunkSize); the empty parts form a suffix of the
\* array and no non-empty part follows an empty one.
C27_EmptyPartsAreASuffix ==
    (Called /\ ValidInput) =>
        /\ Len(Parts) = partCount
        /\ \A k \in 1..Len(Parts) :
              (PartSize(k) = 0) <=> (k - 1 >= CeilDiv(totalSize, chunkSize))
        /\ \A k \in 1..(Len(Parts) - 1) : PartSize(k) = 0 => PartSize(k + 1) = 0

C27_Witness ==
    /\ Called /\ ValidInput
    /\ totalSize % chunkSize # 0
    /\ Len(Parts) = partCount
    /\ partCount >= 3
    /\ PartSize(partCount - 1) > 0
    /\ PartSize(partCount) = 0

\* C28: for every valid input every non-empty part starts at a multiple of
\* chunkSize, and the end of a non-empty part is a multiple of chunkSize
\* unless it is totalSize.
C28_NonEmptyPartsStartAligned ==
    (Called /\ ValidInput) =>
        \A k \in 1..Len(Parts) :
           PartSize(k) > 0 =>
              /\ Parts[k].start % chunkSize = 0
              /\ (Parts[k].end % chunkSize # 0) => Parts[k].end = totalSize

C28_Witness ==
    /\ Called /\ ValidInput
    /\ totalSize % chunkSize # 0
    /\ \E k \in 2..Len(Parts) :
          /\ PartSize(k) > 0
          /\ Parts[k].start > 0
          /\ Parts[k].start % chunkSize = 0
          /\ Parts[k].end = totalSize

-----------------------------------------------------------------------------
(* A property of the promise under late callbacks (TusLateSpec).            *)

\* C29: the outcome of a large upload is settled at most once: once the
\* promise of uploadLargeFileRequest is rejected or resolved, no later
\* onError, onSuccess or probe completion changes what the caller gets.
C29_SettledOnce ==
    [][outcome.kind # "pending" => outcome' = outcome]_vars

C29_Witness ==
    /\ events = <<"onSuccess", "probeResponse", "onError">>
    /\ tusError # NoError
    /\ pc = "done"
    /\ outcome = [kind |-> "returned", value |-> formatSkylink("skylink")]

====
